---- MODULE Spec2Model ----
(***************************************************************************)
(* Reminder bot (bot.js): the deferred scheduler (scheduledJobs,           *)
(* scheduleNoteJob and its fire callback), the per-chat session manager    *)
(* (userState, stateTimeouts, setState, clearState) and the handlers of    *)
(* the reminder wizards that call them.                                    *)
(*                                                                         *)
(* Time is a natural number of ticks of the bot's clock; the idle timeout  *)
(* of a session is two ticks.  A handler that contains no await runs in    *)
(* one step; the fire callback of a job awaits bot.sendMessage, so it is   *)
(* split in Fire (the callback starts and suspends) and DeliverOk /        *)
(* DeliverFail (the send settles and the callback resumes).                *)
(*                                                                         *)
(* The report wizards (create_report, edit_report) and the inline buttons  *)
(* (callback_query) follow; step 6 of create_report awaits the send of the *)
(* preview before it writes step 7, so it is split in the message step and *)
(* PreviewSent / PreviewFailed.  The resolver parseIndoPrefer is an        *)
(* operator with a specification of its own.                               *)
(***************************************************************************)
EXTENDS Integers, FiniteSets, Sequences, TLC

VARIABLES
    now,            \* the clock, moment.tz(TIMEZONE)
    notes,          \* table notes: id -> row
    nextId,         \* AUTOINCREMENT of notes.id
    jobs,           \* node-schedule jobs that are armed or whose callback runs
    scheduledJobs,  \* Map id -> job handle (NoJob when scheduleJob gave null)
    userState,      \* Map chatId -> session object
    stateTimeouts,  \* Map chatId -> handle of the idle timeout
    timers,         \* setTimeout timers that are armed
    lastSet,        \* history: per chat, the time of the latest setState
    trace,          \* history: what the latest step called, what was delivered
    reports,        \* table reports: id -> row
    nextRep,        \* AUTOINCREMENT of reports.id
    susp,           \* message handlers suspended on the send of a preview
    resolved        \* the latest call of the resolver: phrase, time and result

vars == <<now, notes, nextId, jobs, scheduledJobs, userState, stateTimeouts,
          timers, lastSet, trace, reports, nextRep, susp, resolved>>

----------------------------------------------------------------------------
(* Bounds of the model *)

MaxTime == 2
MaxNotes == 1
MaxChats == 2
MaxSessTime == 4             \* the clock of the session manager on its own
MaxJobs == MaxNotes + 1     \* jobs that are armed or running at one time
MaxReports == 1
MaxSusp == 1                \* message handlers suspended at one time
MaxParseNow == 11           \* the reference times the resolver is tried on

(* Program constant, in ticks: the idle timeout of a session *)

TIMEOUT == 2

(* The length of a day in ticks, scaled down with the other bounds *)

DayLen == 2

(* The hours of the presets, scaled to the day: 08:00 and 13:00 *)

Hour08 == 0
Hour13 == 1

Chats == 1 .. MaxChats
SchedChat == 1
NoteIds == 1 .. MaxNotes
ReportIds == 1 .. MaxReports
TimeVals == 0 .. MaxTime
Texts == {"a"}  \* the texts of messages; their content decides no branch

NULL == "null"
Absent == -1     \* no entry in a Map
NoJob == 0       \* the null that scheduleJob returns
NoTimer == 0
NoId == 0
NoTime == -1

----------------------------------------------------------------------------
(* Values *)

\* the working record of a report wizard (data); an attribute that was never
\* assigned is NULL or NoTime
NoData ==
    [title |-> NULL, completion |-> NULL, report_time |-> NoTime,
     receive_time |-> NoTime, done_time |-> NoTime, notes |-> NULL]

NoField == "none"

\* a session object.  oid is history: the identity of the object of a
\* create_report session, which a suspended handler keeps a reference to
NoState ==
    [mode |-> "none", step |-> 0, id |-> NoId, text |-> NULL, candidate |-> NoTime,
     data |-> NoData, awaiting_custom |-> NoField, oid |-> 0]

St(mode, step, id, text, candidate) ==
    [mode |-> mode, step |-> step, id |-> id, text |-> text, candidate |-> candidate,
     data |-> NoData, awaiting_custom |-> NoField, oid |-> 0]

\* the session object of create_report and edit_report
RepSt(mode, step, id, data, oid) ==
    [mode |-> mode, step |-> step, id |-> id, text |-> NULL, candidate |-> NoTime,
     data |-> data, awaiting_custom |-> NoField, oid |-> oid]

ReportRow(id, chat, data) == [id |-> id, chat_id |-> chat, data |-> data]

NoReport == ReportRow(NoId, 0, NoData)

NoteRow(id, chat, text, at) ==
    [id |-> id, chat_id |-> chat, text |-> text, reminder_at |-> at, reminded |-> 0]

\* no row (undefined); a row's reminder_at is NoTime when it is SQL NULL
NoNote == NoteRow(NoId, 0, NULL, NoTime)

\* history.  last names the latest step when it was a start of the process
\* ("boot"), a failed delivery ("fail"), an idle timeout ("expire") or a
\* setState that replaced a session ("reset"); arm holds the row the latest
\* step gave to scheduleNoteJob; failed[id] says that a delivery failed for
\* the time the row id now has
NoTrace == [last |-> "", arm |-> <<>>, failed |-> [i \in NoteIds |-> FALSE]]

\* further values of last: "reprompt" (a time input was not resolved and
\* the handler asked again), "passed_today" (edit_note_time answered the
\* signal time_passed_today), "notfound" and "cmd" (a command whose id was
\* not found, or was found)
Said(M, l) == [M EXCEPT !.trace.last = l]

\* the machine state as one record, so that handlers compose
Cur ==
    [now |-> now, notes |-> notes, nextId |-> nextId, jobs |-> jobs,
     scheduledJobs |-> scheduledJobs, userState |-> userState,
     stateTimeouts |-> stateTimeouts, timers |-> timers, lastSet |-> lastSet,
     trace |-> trace, reports |-> reports, nextRep |-> nextRep, susp |-> susp,
     resolved |-> resolved]

Is(M) ==
    /\ now = M.now
    /\ notes = M.notes
    /\ nextId = M.nextId
    /\ jobs = M.jobs
    /\ scheduledJobs = M.scheduledJobs
    /\ userState = M.userState
    /\ stateTimeouts = M.stateTimeouts
    /\ timers = M.timers
    /\ lastSet = M.lastSet
    /\ trace = M.trace
    /\ reports = M.reports
    /\ nextRep = M.nextRep
    /\ susp = M.susp
    /\ resolved = M.resolved

Becomes(M) ==
    /\ now' = M.now
    /\ notes' = M.notes
    /\ nextId' = M.nextId
    /\ jobs' = M.jobs
    /\ scheduledJobs' = M.scheduledJobs
    /\ userState' = M.userState
    /\ stateTimeouts' = M.stateTimeouts
    /\ timers' = M.timers
    /\ lastSet' = M.lastSet
    /\ trace' = M.trace
    /\ reports' = M.reports
    /\ nextRep' = M.nextRep
    /\ susp' = M.susp
    /\ resolved' = M.resolved

FreshHandle(used) == CHOOSE h \in 1 .. (Cardinality(used) + 1) : h \notin used

----------------------------------------------------------------------------
(* Session manager: setState, clearState, the idle timeout *)

TimerHandles(M) ==
    {t.h : t \in M.timers} \cup {M.stateTimeouts[c] : c \in Chats}

\* clearTimeout(handle): a timer that already fired is not in timers
ClearTimeout(M, h) == [M EXCEPT !.timers = {t \in @ : t.h # h}]

\* setState without the clearTimeout of the timer it replaces
SetStateNoClear(M, c, obj) ==
    LET h == FreshHandle(TimerHandles(M))
        t == [h |-> h, chat |-> c, due |-> M.now + TIMEOUT, cur |-> TRUE]
    IN [M EXCEPT
          !.userState[c] = obj,
          !.timers = {IF u.chat = c THEN [u EXCEPT !.cur = FALSE] ELSE u : u \in @}
                       \cup {t},
          !.stateTimeouts[c] = h,
          !.lastSet[c] = M.now,
          !.trace.last = IF M.userState[c] # NoState THEN "reset" ELSE @]

\* setState that keeps the timer of the session it replaces
SetStateKeepTimer(M, c, obj) ==
    IF M.stateTimeouts[c] # NoTimer
    THEN [M EXCEPT
            !.userState[c] = obj,
            !.lastSet[c] = M.now,
            !.trace.last = IF M.userState[c] # NoState THEN "reset" ELSE @]
    ELSE LET h == FreshHandle(TimerHandles(M))
             t == [h |-> h, chat |-> c, due |-> M.now + TIMEOUT, cur |-> TRUE]
         IN [M EXCEPT
               !.userState[c] = obj,
               !.timers = @ \cup {t},
               !.stateTimeouts[c] = h,
               !.lastSet[c] = M.now]

SetState(M, c, obj) ==
    LET M1 == IF M.stateTimeouts[c] # NoTimer
              THEN ClearTimeout(M, M.stateTimeouts[c])
              ELSE M
        h == FreshHandle(TimerHandles(M1) \ {M.stateTimeouts[c]})
        t == [h |-> h, chat |-> c, due |-> M.now + TIMEOUT, cur |-> TRUE]
    IN [M1 EXCEPT
          !.userState[c] = obj,
          !.timers = {IF u.chat = c THEN [u EXCEPT !.cur = FALSE] ELSE u : u \in @}
                       \cup {t},
          !.stateTimeouts[c] = h,
          !.lastSet[c] = M.now,
          !.trace.last = IF M.userState[c] # NoState THEN "reset" ELSE @]

\* clearState without the clearTimeout
ClearStateKeepTimer(M, c) ==
    [M EXCEPT
       !.userState[c] = NoState,
       !.stateTimeouts[c] = NoTimer,
       !.lastSet[c] = NoTime]

ClearState(M, c) ==
    LET M1 == IF M.stateTimeouts[c] # NoTimer
              THEN ClearTimeout(M, M.stateTimeouts[c])
              ELSE M
    IN [M1 EXCEPT
          !.userState[c] = NoState,
          !.stateTimeouts[c] = NoTimer,
          !.lastSet[c] = NoTime]

\* the callback given to setTimeout: it deletes by chat id
OnTimeout(M, t) ==
    [M EXCEPT
       !.timers = @ \ {t},
       !.userState[t.chat] = NoState,
       !.stateTimeouts[t.chat] = NoTimer,
       !.lastSet[t.chat] = NoTime,
       !.trace.last = "expire"]

----------------------------------------------------------------------------
(* Scheduler: scheduleNoteJob *)

JobHandles(M) ==
    {j.h : j \in M.jobs} \cup {M.scheduledJobs[i] : i \in NoteIds}

\* job.cancel(): disarms the job; a callback that already started runs on.
\* Calling it on null throws, which the callers catch.
CancelJob(M, h) == [M EXCEPT !.jobs = {j \in @ : ~(j.h = h /\ j.st = "pending")}]

\* getNoteByIdStmt.get(id, chatId)
GetNote(M, id, c) ==
    IF id \in NoteIds /\ M.notes[id].id = id /\ M.notes[id].chat_id = c
    THEN M.notes[id]
    ELSE NoNote

\* schedule.scheduleJob(date, callback): a job, or null when the date is
\* already behind the library's own reading of the clock.  The library reads
\* the clock after scheduleNoteJob did, so for a date equal to the time
\* scheduleNoteJob saw it may or may not accept: accept says which.
LibScheduleJob(M, note, accept) ==
    IF note.reminder_at > M.now \/ (note.reminder_at = M.now /\ accept)
    THEN LET h == FreshHandle(JobHandles(M))
         IN [M EXCEPT
               !.jobs = @ \cup {[h |-> h, id |-> note.id, when |-> note.reminder_at,
                                 chat |-> note.chat_id, text |-> note.text,
                                 st |-> "pending",
                                 ahead |-> note.reminder_at > M.now]},
               !.scheduledJobs[note.id] = h]
    ELSE [M EXCEPT !.scheduledJobs[note.id] = NoJob]

\* scheduleNoteJob without the return for a time that is past
ScheduleNoteJobNoSkip(M, note, accept) ==
    IF note = NoNote THEN M
    ELSE IF note.reminder_at = NoTime THEN M
    ELSE LET id == note.id
             M1 == IF M.scheduledJobs[id] # Absent
                   THEN [CancelJob(M, M.scheduledJobs[id])
                           EXCEPT !.scheduledJobs[id] = Absent]
                   ELSE M
         IN LibScheduleJob(M1, note, accept)

ScheduleNoteJob(M, note, accept) ==
    IF note = NoNote THEN M
    ELSE IF note.reminder_at = NoTime THEN M
    ELSE IF note.reminder_at < M.now THEN M
    ELSE LET id == note.id
             M1 == IF M.scheduledJobs[id] # Absent
                   THEN [CancelJob(M, M.scheduledJobs[id])
                           EXCEPT !.scheduledJobs[id] = Absent]
                   ELSE M
         IN LibScheduleJob(M1, note, accept)


\* a handler's call of scheduleNoteJob, noted in the history
Arm(M, note, accept) ==
    LET M1 == ScheduleNoteJob(M, note, accept)
    IN IF note = NoNote \/ note.reminder_at = NoTime THEN M1
       ELSE [M1 EXCEPT !.trace.arm = <<[id |-> note.id, when |-> note.reminder_at]>>]

----------------------------------------------------------------------------
(* Store: the prepared statements on table notes *)

\* insertNoteStmt.run(chat, text, reminder_at); the new id is M.nextId
InsertNote(M, c, text, at) ==
    [M EXCEPT !.notes[M.nextId] = NoteRow(M.nextId, c, text, at),
              !.nextId = @ + 1]

HasNote(M, id, c) == GetNote(M, id, c) # NoNote

\* updateNoteTextStmt.run(text, id, chat)
UpdateNoteText(M, text, id, c) ==
    IF HasNote(M, id, c) THEN [M EXCEPT !.notes[id].text = text] ELSE M

\* updateNoteReminderStmt.run(reminder_at, id, chat): also resets reminded
UpdateNoteReminder(M, at, id, c) ==
    IF HasNote(M, id, c)
    THEN [M EXCEPT !.notes[id].reminder_at = at, !.notes[id].reminded = 0,
                   !.trace.failed[id] = FALSE]
    ELSE M

\* deleteNoteByIdStmt.run(id, chat)
DeleteNote(M, id, c) ==
    IF HasNote(M, id, c)
    THEN [M EXCEPT !.notes[id] = NoNote, !.trace.failed[id] = FALSE]
    ELSE M

\* UPDATE notes SET reminded = 1 WHERE id = ?
MarkReminded(M, id) ==
    IF M.notes[id].id = id THEN [M EXCEPT !.notes[id].reminded = 1] ELSE M

\* getReportByIdStmt.get(id, chatId)
GetReport(M, id, c) ==
    IF id \in ReportIds /\ M.reports[id].id = id /\ M.reports[id].chat_id = c
    THEN M.reports[id]
    ELSE NoReport

\* a value of the working record that was never assigned is undefined, and
\* better-sqlite3 refuses to bind undefined
Bindable(data) ==
    /\ data.title # NULL
    /\ data.completion # NULL
    /\ data.report_time # NoTime
    /\ data.receive_time # NoTime
    /\ data.done_time # NoTime
    /\ data.notes # NULL

\* insertReportStmt.run(chatId, title, ..., notes)
InsertReport(M, c, data) ==
    [M EXCEPT
       !.reports[M.nextRep] = ReportRow(M.nextRep, c, data),
       !.nextRep = @ + 1]

----------------------------------------------------------------------------
(* Inputs.  A text message is its kind, the text it carries and what the   *)
(* resolver makes of it: a timestamp, the signal time_passed_today with    *)
(* the candidate, or nothing.  custom is what parseCustomTimestamp makes   *)
(* of the same text: a timestamp or nothing.                               *)

At(t) == [k |-> "at", t |-> t]
Passed(cand) == [k |-> "passed", t |-> cand]
Unparsed == [k |-> "none", t |-> NoTime]

NoResolved == [at |-> NoTime, hh |-> 0, today |-> FALSE, res |-> Unparsed]

DayOf(t) == t \div DayLen
TimeOfDay(t) == t % DayLen

\* candidate.format("HH:mm")
FormatHHmm(t) == TimeOfDay(t)

\* the hours "jam N" can name: the pattern takes two digits, so also hours
\* that are no time of day
MaxHour == 2 * DayLen - 1

\* extractHourPreferToday: today at hh; moment's setter carries an hour
\* beyond the day over to the next day
ExtractHourPreferToday(t, hh) == DayOf(t) * DayLen + hh

\* parseIndoPrefer that also returns a candidate equal to now
ParseManualSameOrAfter(t, hh, today) ==
    LET manual == ExtractHourPreferToday(t, hh)
    IN IF manual >= t THEN At(manual)
       ELSE IF today THEN Passed(manual)
       ELSE At(manual + DayLen)

\* parseIndoPrefer for a phrase with "jam hh", with or without "hari ini"
ParseManual(t, hh, today) ==
    LET manual == ExtractHourPreferToday(t, hh)
    IN IF manual > t THEN At(manual)
       ELSE IF today THEN Passed(manual)
       ELSE At(manual + DayLen)

\* what parseIndoPrefer can return at time t: any timestamp (chrono also
\* yields dates that are past), or time_passed_today with a candidate of
\* today that is not after t
ParseResults(t) ==
    {Unparsed} \cup {At(x) : x \in TimeVals}
      \cup {Passed(x) : x \in (DayOf(t) * DayLen) .. t}

\* text is the message's text, note the text that follows "ingatkan"
Plain(text, p) ==
    [kind |-> "plain", text |-> text, note |-> NULL, parse |-> p, custom |-> Unparsed]
Yes(text) ==
    [kind |-> "yes", text |-> text, note |-> NULL, parse |-> Unparsed, custom |-> Unparsed]
MenuCreateBtn(text) ==
    [kind |-> "create", text |-> text, note |-> NULL, parse |-> Unparsed,
     custom |-> Unparsed]
MenuHomeBtn(text) ==
    [kind |-> "home", text |-> text, note |-> NULL, parse |-> Unparsed,
     custom |-> Unparsed]
Command(text) ==
    [kind |-> "cmd", text |-> text, note |-> NULL, parse |-> Unparsed, custom |-> Unparsed]
Ingat(text, noteText, p) ==
    [kind |-> "ingat", text |-> text, note |-> noteText, parse |-> p, custom |-> Unparsed]

\* a text typed in a report wizard: p and cu are what the two parsers make of it
Typed(text, p, cu) ==
    [kind |-> "plain", text |-> text, note |-> NULL, parse |-> p, custom |-> cu]

\* the keyboard button that starts the report wizard
MenuReportBtn(text) ==
    [kind |-> "report", text |-> text, note |-> NULL, parse |-> Unparsed,
     custom |-> Unparsed]

\* computePresetDatetime that gives the next 08:00 or 13:00 that is to come
ComputePresetDatetimeForward(t, tag) ==
    CASE tag = "now" -> t
      [] tag = "today_08" ->
           IF DayOf(t) * DayLen + Hour08 < t
           THEN (DayOf(t) + 1) * DayLen + Hour08
           ELSE DayOf(t) * DayLen + Hour08
      [] tag = "today_13" ->
           IF DayOf(t) * DayLen + Hour13 < t
           THEN (DayOf(t) + 1) * DayLen + Hour13
           ELSE DayOf(t) * DayLen + Hour13
      [] tag = "tomorrow_08" -> (DayOf(t) + 1) * DayLen + Hour08
      [] OTHER -> NoTime

\* computePresetDatetime at time t; NoTime is its null
ComputePresetDatetime(t, tag) ==
    CASE tag = "now" -> t
      [] tag = "today_08" -> DayOf(t) * DayLen + Hour08
      [] tag = "today_13" -> DayOf(t) * DayLen + Hour13
      [] tag = "tomorrow_08" -> (DayOf(t) + 1) * DayLen + Hour08
      [] OTHER -> NoTime

\* moment.tz(TIMEZONE).add(1, "day").hour(hh).minute(mm)
TomorrowAt(t, hhmm) == (DayOf(t) + 1) * DayLen + hhmm

----------------------------------------------------------------------------
(* bot.on("message"): the handler of every text message *)

\* the identity of a new session object: one that no session and no suspended
\* handler refers to
FreshOid(M) ==
    FreshHandle({M.userState[c].oid : c \in Chats} \cup {s.obj.oid : s \in M.susp})

\* the part after "if state exists": menu keyboard, "ingatkan ...", fallback
OnMenu(M, c, inp, accept) ==
    CASE inp.kind = "create" ->
           SetState(M, c, St("create_reminder", 1, NoId, NULL, NoTime))
      [] inp.kind = "home" ->
           ClearState(M, c)
      [] inp.kind = "report" ->
           SetState(M, c, RepSt("create_report", 1, NoId, NoData, FreshOid(M)))
      [] inp.kind = "ingat" ->
           IF inp.parse.k = "passed"
           THEN SetState(InsertNote(M, c, inp.note, NoTime), c,
                         St("confirm_next_for_reminder", 0, M.nextId, inp.note,
                            FormatHHmm(inp.parse.t)))
           ELSE IF inp.parse.k = "none"
           THEN SetState(InsertNote(M, c, inp.note, NoTime), c,
                         St("await_time_for_note", 0, M.nextId, NULL, NoTime))
           ELSE LET M1 == InsertNote(M, c, inp.note, inp.parse.t)
                IN Arm(M1, GetNote(M1, M.nextId, c), accept)
      [] OTHER -> M     \* "Saya belum mengerti"

OnEditNoteText(M, c, st, inp) ==
    ClearState(UpdateNoteText(M, inp.text, st.id, c), c)

OnEditNoteTime(M, c, st, inp, accept) ==
    IF inp.parse.k = "passed" THEN Said(M, "passed_today")
    ELSE IF inp.parse.k = "none" THEN Said(M, "reprompt")
    ELSE LET M1 == UpdateNoteReminder(M, inp.parse.t, st.id, c)
         IN ClearState(Arm(M1, GetNote(M1, st.id, c), accept), c)

OnCreateReminder(M, c, st, inp, accept) ==
    IF st.step = 1
    THEN SetState(M, c, [st EXCEPT !.text = inp.text, !.step = 2])
    ELSE IF st.step = 2
    THEN IF inp.parse.k = "passed"
         THEN SetState(M, c, St("confirm_next_for_reminder", 0, NoId, st.text,
                                FormatHHmm(inp.parse.t)))
         ELSE IF inp.parse.k = "none" THEN Said(M, "reprompt")
         ELSE LET M1 == InsertNote(M, c, st.text, inp.parse.t)
              IN ClearState(Arm(M1, GetNote(M1, M.nextId, c), accept), c)
    ELSE OnMenu(M, c, inp, accept)

OnConfirmNext(M, c, st, inp, accept) ==
    IF inp.kind = "yes"
    THEN LET dt == TomorrowAt(M.now, st.candidate)
             M1 == InsertNote(M, c, st.text, dt)
         IN ClearState(Arm(M1, GetNote(M1, M.nextId, c), accept), c)
    ELSE SetState(M, c, St("create_reminder", 2, NoId, st.text, NoTime))

OnAwaitTime(M, c, st, inp, accept) ==
    IF inp.parse.k # "at" THEN Said(M, "reprompt")
    ELSE LET M1 == UpdateNoteReminder(M, inp.parse.t, st.id, c)
         IN ClearState(Arm(M1, GetNote(M1, st.id, c), accept), c)

\* the attribute of the working record that a time step of a report wizard
\* captures
StepAttr(step) ==
    CASE step = 3 -> "report_time"
      [] step = 4 -> "receive_time"
      [] step = 5 -> "done_time"

\* create_report whose re-prompt of a time step calls setState
OnCreateReportRestart(M, c, st, inp, accept) ==
    CASE st.step = 1 ->
           SetState(M, c, [st EXCEPT !.data.title = inp.text, !.step = 2])
      [] st.step = 2 ->
           SetState(M, c, [st EXCEPT !.data.completion = inp.text, !.step = 3])
      [] st.step \in 3 .. 5 ->
           IF inp.custom.k # "at" THEN Said(SetState(M, c, st), "reprompt")
           ELSE Said(SetState(M, c, [st EXCEPT !.data[StepAttr(st.step)] = inp.custom.t,
                                              !.step = @ + 1]), "typed")
      [] st.step = 6 ->
           LET obj == [st EXCEPT !.data.notes = inp.text]
           IN [M EXCEPT !.userState[c] = obj,
                        !.susp = @ \cup {[chat |-> c, obj |-> obj]}]
      [] OTHER -> OnMenu(M, c, inp, accept)

\* create_report.  Step 6 stores the notes in the session object, sends the
\* preview and awaits the send: the handler is suspended with its reference
\* to the object; at step 7 no branch matches and the menu takes the text
OnCreateReport(M, c, st, inp, accept) ==
    CASE st.step = 1 ->
           SetState(M, c, [st EXCEPT !.data.title = inp.text, !.step = 2])
      [] st.step = 2 ->
           SetState(M, c, [st EXCEPT !.data.completion = inp.text, !.step = 3])
      [] st.step \in 3 .. 5 ->
           IF inp.custom.k # "at" THEN Said(M, "reprompt")
           ELSE Said(SetState(M, c, [st EXCEPT !.data[StepAttr(st.step)] = inp.custom.t,
                                              !.step = @ + 1]), "typed")
      [] st.step = 6 ->
           LET obj == [st EXCEPT !.data.notes = inp.text]
           IN [M EXCEPT !.userState[c] = obj,
                        !.susp = @ \cup {[chat |-> c, obj |-> obj]}]
      [] OTHER -> OnMenu(M, c, inp, accept)

\* the sentinels of edit_report
Keep(text) == text = "-"
Skip(text) == text \in {"skip", "-"}

\* updateReportStmt.run(..., id, chatId)
UpdateReport(M, data, id, c) ==
    IF GetReport(M, id, c) # NoReport
    THEN [M EXCEPT !.reports[id].data = data]
    ELSE M

OnEditReportStep(M, c, st, inp, accept) ==
    CASE st.step = 1 ->
           SetState(M, c, [st EXCEPT
                             !.data.title = IF Keep(inp.text) THEN @ ELSE inp.text,
                             !.step = 2])
      [] st.step = 2 ->
           SetState(M, c, [st EXCEPT
                             !.data.completion = IF Keep(inp.text) THEN @ ELSE inp.text,
                             !.step = 3])
      [] st.step \in 3 .. 5 ->
           IF Skip(inp.text)
           THEN SetState(M, c, [st EXCEPT !.step = @ + 1])
           ELSE IF inp.custom.k # "at" THEN Said(M, "reprompt")
           ELSE Said(SetState(M, c, [st EXCEPT !.data[StepAttr(st.step)] = inp.custom.t,
                                              !.step = @ + 1]), "typed")
      [] st.step = 6 ->
           LET d == [st.data EXCEPT !.notes = IF Keep(inp.text) THEN @ ELSE inp.text]
           IN ClearState(UpdateReport(M, d, st.id, c), c)
      [] OTHER -> OnMenu(M, c, inp, accept)

OnMessage(M, c, inp, accept) ==
    LET st == M.userState[c]
    IN CASE st.mode = "edit_note_text" -> OnEditNoteText(M, c, st, inp)
         [] st.mode = "edit_note_time" -> OnEditNoteTime(M, c, st, inp, accept)
         [] st.mode = "create_reminder" -> OnCreateReminder(M, c, st, inp, accept)
         [] st.mode = "confirm_next_for_reminder" -> OnConfirmNext(M, c, st, inp, accept)
         [] st.mode = "await_time_for_note" -> OnAwaitTime(M, c, st, inp, accept)
         [] st.mode = "create_report" -> OnCreateReport(M, c, st, inp, accept)
         [] st.mode = "edit_report" -> OnEditReportStep(M, c, st, inp, accept)
         [] OTHER -> OnMenu(M, c, inp, accept)

----------------------------------------------------------------------------
(* bot.onText: the commands.  The library emits "message" first, so the    *)
(* message handler has already taken the command's text when these run.    *)

OnDelete(M, c, id) ==
    IF HasNote(M, id, c)
    THEN LET M1 == DeleteNote(M, id, c)
         IN Said(IF M1.scheduledJobs[id] # Absent
                 THEN [CancelJob(M1, M1.scheduledJobs[id])
                         EXCEPT !.scheduledJobs[id] = Absent]
                 ELSE M1, "cmd")
    ELSE IF GetReport(M, id, c) # NoReport
    THEN Said([M EXCEPT !.reports[id] = NoReport], "cmd")
    ELSE Said(M, "notfound")

OnEdit(M, c, id) ==
    IF HasNote(M, id, c)
    THEN Said(SetState(M, c, St("edit_note_text", 0, id, NULL, NoTime)), "cmd")
    ELSE Said(M, "notfound")

OnEditTime(M, c, id) ==
    IF HasNote(M, id, c)
    THEN Said(SetState(M, c, St("edit_note_time", 0, id, NULL, NoTime)), "cmd")
    ELSE Said(M, "notfound")

OnEditReport(M, c, id) ==
    LET rep == GetReport(M, id, c)
    IN IF rep = NoReport THEN Said(M, "notfound")
       ELSE Said(SetState(M, c, RepSt("edit_report", 1, id, rep.data, 0)), "cmd")

----------------------------------------------------------------------------
(* bot.on("callback_query"): the inline buttons.  The answer given to the  *)
(* button is kept in trace.last: "no_session", "custom", "preset_invalid", *)
(* "preset" (the value was taken), "preset_unanswered" (the value was      *)
(* taken and the send of the next prompt failed), "preset_ignored",        *)
(* "save", "save_rejected", "save_failed" (the insert threw) and "cancel". *)

CreateFields == {"report_time", "receive_time", "done_time"}
EditFields == {"edit_report_time", "edit_receive_time", "edit_done_time"}
KnownTags == {"now", "today_08", "today_13", "tomorrow_08", "custom"}
AllTags == KnownTags \cup {"other"}
AllFields == CreateFields \cup EditFields \cup {"other"}

\* the attribute and the next step that a field of a preset button selects
PresetAttr(field) ==
    CASE field \in {"report_time", "edit_report_time"} -> "report_time"
      [] field \in {"receive_time", "edit_receive_time"} -> "receive_time"
      [] field \in {"done_time", "edit_done_time"} -> "done_time"

PresetStep(field) ==
    CASE field \in {"report_time", "edit_report_time"} -> 4
      [] field \in {"receive_time", "edit_receive_time"} -> 5
      [] field \in {"done_time", "edit_done_time"} -> 6

\* the preset handler that takes the value whatever the mode of the session
OnPresetAnyMode(M, c, field, tag) ==
    LET st == M.userState[c]
        dt == ComputePresetDatetime(M.now, tag)
    IN IF st = NoState THEN Said(M, "no_session")
       ELSE IF tag = "custom"
       THEN Said(SetState(M, c, [st EXCEPT !.awaiting_custom = field]), "custom")
       ELSE IF dt = NoTime THEN Said(M, "preset_invalid")
       ELSE IF field \in CreateFields \cup EditFields
       THEN Said(SetState(M, c, [st EXCEPT !.data[PresetAttr(field)] = dt,
                                          !.step = PresetStep(field)]), "preset")
       ELSE Said(M, "preset_ignored")

\* data "preset|field|tag"
OnPreset(M, c, field, tag) ==
    LET st == M.userState[c]
        dt == ComputePresetDatetime(M.now, tag)
    IN IF st = NoState THEN Said(M, "no_session")
       ELSE IF tag = "custom"
       THEN Said(SetState(M, c, [st EXCEPT !.awaiting_custom = field]), "custom")
       ELSE IF dt = NoTime THEN Said(M, "preset_invalid")
       ELSE IF \/ st.mode = "create_report" /\ field \in CreateFields
               \/ st.mode = "edit_report" /\ field \in EditFields
       THEN Said(SetState(M, c, [st EXCEPT !.data[PresetAttr(field)] = dt,
                                          !.step = PresetStep(field)]), "preset")
       ELSE Said(M, "preset_ignored")

\* the preset branch awaits the send of the next prompt before it answers the
\* button: when the send is rejected the handler ends there
OnPromptSettled(M, sent) ==
    IF M.trace.last = "preset" /\ ~sent THEN Said(M, "preset_unanswered") ELSE M

\* the paths of the handler, and those on which answerCallbackQuery is called
ButtonPaths ==
    {"no_session", "custom", "preset_invalid", "preset", "preset_unanswered",
     "preset_ignored", "save", "save_rejected", "save_failed", "cancel"}

Acknowledged(path) ==
    path \in {"no_session", "custom", "preset_invalid", "preset", "preset_ignored",
              "save", "save_rejected", "cancel"}

\* data "report_confirm_save"; an insert that throws ends the handler
OnConfirmSave(M, c) ==
    LET st == M.userState[c]
    IN IF st = NoState \/ st.mode # "create_report" \/ st.step # 7
       THEN Said(M, "save_rejected")
       ELSE IF ~Bindable(st.data) THEN Said(M, "save_failed")
       ELSE Said(ClearState(InsertReport(M, c, st.data), c), "save")

\* data "report_confirm_cancel"
OnConfirmCancel(M, c) == Said(ClearState(M, c), "cancel")

\* the handler of step 6 that writes step 7 only if the Map still holds its
\* object
OnPreviewSentIfCurrent(M, s) ==
    IF M.userState[s.chat].oid = s.obj.oid
    THEN Said(SetState([M EXCEPT !.susp = @ \ {s}], s.chat,
                       [s.obj EXCEPT !.step = 7]), "preview")
    ELSE Said([M EXCEPT !.susp = @ \ {s}], "preview_late")

\* the send of the preview settled and the handler of step 6 resumes:
\* st.step = 7; setState(chatId, st) on the object it holds.  The history
\* says "preview_late" when the Map no longer held that object
OnPreviewSent(M, s) ==
    Said(SetState([M EXCEPT !.susp = @ \ {s}], s.chat, [s.obj EXCEPT !.step = 7]),
         IF M.userState[s.chat].oid = s.obj.oid THEN "preview" ELSE "preview_late")

\* the send of the preview failed: the handler ends with the rejection
OnPreviewFailed(M, s) == [M EXCEPT !.susp = @ \ {s}]

----------------------------------------------------------------------------
(* The fire callback of a job *)

\* the timer fires: the callback calls bot.sendMessage and awaits it
OnFire(M, j) == [M EXCEPT !.jobs = (@ \ {j}) \cup {[j EXCEPT !.st = "sending"]}]

\* the send succeeded: reminded = 1, then scheduledJobs.delete(id)
OnDelivered(M, j) ==
    [MarkReminded(M, j.id) EXCEPT
       !.jobs = @ \ {j},
       !.scheduledJobs[j.id] = Absent]

\* the send failed: caught and logged, then scheduledJobs.delete(id)
OnSendFailed(M, j) ==
    [M EXCEPT
       !.jobs = @ \ {j},
       !.scheduledJobs[j.id] = Absent,
       !.trace.last = "fail",
       !.trace.failed[j.id] = (M.notes[j.id].id = j.id
                                 /\ M.notes[j.id].reminder_at = j.when)]

----------------------------------------------------------------------------
(* Startup: the recovery loop over the rows with a time and reminded = 0 *)

\* the recovery loop over every row with a time, reminded or not
RECURSIVE RecoverFromAll(_, _, _)
RecoverFromAll(M, k, accept) ==
    IF k > MaxNotes THEN M
    ELSE LET n == M.notes[k]
         IN IF n.id = k /\ n.reminder_at # NoTime
            THEN RecoverFromAll(ScheduleNoteJob(M, n, accept), k + 1, accept)
            ELSE RecoverFromAll(M, k + 1, accept)

RECURSIVE RecoverFrom(_, _, _)
RecoverFrom(M, k, accept) ==
    IF k > MaxNotes THEN M
    ELSE LET n == M.notes[k]
         IN IF n.id = k /\ n.reminder_at # NoTime /\ n.reminded = 0
            THEN RecoverFrom(ScheduleNoteJob(M, n, accept), k + 1, accept)
            ELSE RecoverFrom(M, k + 1, accept)

\* a process that starts on the store M.notes at time t
Boot(M, t, accept) ==
    LET M0 == [M EXCEPT
                 !.now = t,
                 !.jobs = {},
                 !.scheduledJobs = [i \in NoteIds |-> Absent],
                 !.userState = [c \in Chats |-> NoState],
                 !.stateTimeouts = [c \in Chats |-> NoTimer],
                 !.timers = {},
                 !.lastSet = [c \in Chats |-> NoTime],
                 !.susp = {},
                 !.trace.last = "boot"]
    IN RecoverFrom(M0, 1, accept)

----------------------------------------------------------------------------
(* Actions *)

\* the state a step starts from: the history of the latest step is reset
Begin == [Cur EXCEPT !.trace.last = "", !.trace.arm = <<>>]

\* a suspended handler and the Map refer to the same object: what a step
\* wrote into the session object is seen through both references
Alias(M) ==
    [M EXCEPT !.susp =
        {IF s.obj.oid = M.userState[s.chat].oid
         THEN [s EXCEPT !.obj = M.userState[s.chat]]
         ELSE s : s \in @}]

Step(M) ==
    /\ M.nextId <= MaxNotes + 1
    /\ Cardinality(M.jobs) <= MaxJobs
    /\ M.nextRep <= MaxReports + 1
    /\ Cardinality(M.susp) <= MaxSusp
    /\ Becomes(Alias(M))

\* an empty database and no process
Genesis ==
    [now |-> 0, notes |-> [i \in NoteIds |-> NoNote], nextId |-> 1, jobs |-> {},
     scheduledJobs |-> [i \in NoteIds |-> Absent],
     userState |-> [c \in Chats |-> NoState],
     stateTimeouts |-> [c \in Chats |-> NoTimer], timers |-> {},
     lastSet |-> [c \in Chats |-> NoTime], trace |-> NoTrace,
     reports |-> [i \in ReportIds |-> NoReport], nextRep |-> 1, susp |-> {},
     resolved |-> NoResolved]

Init == Is(Boot(Genesis, 0, TRUE))

Tick ==
    /\ now < MaxTime
    /\ Step([Begin EXCEPT !.now = @ + 1])

\* a text that is no button label and no command
MsgPlain ==
    \E text \in Texts, p \in ParseResults(now), accept \in BOOLEAN :
        Step(OnMessage(Begin, SchedChat, Plain(text, p), accept))

\* "ya"
MsgYes ==
    \E text \in Texts, accept \in BOOLEAN :
        Step(OnMessage(Begin, SchedChat, Yes(text), accept))

\* the keyboard button that starts the reminder wizard
MenuCreate ==
    \E text \in Texts :
        Step(OnMessage(Begin, SchedChat, MenuCreateBtn(text), TRUE))

\* the keyboard button that returns to the main menu
MenuHome ==
    \E text \in Texts :
        Step(OnMessage(Begin, SchedChat, MenuHomeBtn(text), TRUE))

\* "ingatkan ..." with a text after it
MsgIngat ==
    \E text \in Texts, p \in ParseResults(now), accept \in BOOLEAN :
        Step(OnMessage(Begin, SchedChat, Ingat(text, text, p), accept))

\* /delete id
CmdDelete ==
    \E id \in NoteIds, text \in Texts :
        Step(OnDelete(OnMessage(Begin, SchedChat, Command(text), TRUE), SchedChat, id))

\* /edit id
CmdEdit ==
    \E id \in NoteIds, text \in Texts :
        Step(OnEdit(OnMessage(Begin, SchedChat, Command(text), TRUE), SchedChat, id))

\* /edit_time id
CmdEditTime ==
    \E id \in NoteIds, text \in Texts :
        Step(OnEditTime(OnMessage(Begin, SchedChat, Command(text), TRUE), SchedChat, id))

\* node-schedule runs the callback of a job when its date has come
Fire ==
    \E j \in jobs :
        /\ j.st = "pending"
        /\ now >= j.when
        /\ Step(OnFire(Begin, j))

DeliverOk ==
    \E j \in jobs :
        /\ j.st = "sending"
        /\ Step(OnDelivered(Begin, j))

DeliverFail ==
    \E j \in jobs :
        /\ j.st = "sending"
        /\ Step(OnSendFailed(Begin, j))

\* the idle timeout of the session of chat c runs when its delay has passed
ExpireOf(c) ==
    \E t \in timers :
        /\ t.chat = c
        /\ now >= t.due
        /\ Step(OnTimeout(Begin, t))

Expire == \E c \in Chats : ExpireOf(c)

\* the process stops and is started again, which takes time; the Maps and
\* the timers are lost, the store is kept
Restart ==
    /\ now < MaxTime
    /\ \E accept \in BOOLEAN : Step(Boot(Begin, now + 1, accept))

Next ==
    \/ Tick
    \/ MsgPlain
    \/ MsgYes
    \/ MenuCreate
    \/ MenuHome
    \/ MsgIngat
    \/ CmdDelete
    \/ CmdEdit
    \/ CmdEditTime
    \/ Fire
    \/ DeliverOk
    \/ DeliverFail
    \/ Expire
    \/ Restart

Spec == Init /\ [][Next]_vars

----------------------------------------------------------------------------
(* The session manager on its own: setState and clearState called for any  *)
(* owner in any order, and the idle timeouts                               *)

SessObjs ==
    {St("create_reminder", 1, NoId, NULL, NoTime)}
      \cup {St("create_reminder", 2, NoId, t, NoTime) : t \in Texts}

\* the clock of the session manager on its own; a session is started only
\* while its deadline is within the modelled time
SessTick ==
    /\ now < MaxSessTime
    /\ Step([Begin EXCEPT !.now = @ + 1])

SessSet ==
    /\ now + TIMEOUT <= MaxSessTime
    /\ \E c \in Chats, obj \in SessObjs : Step(SetState(Begin, c, obj))

SessClear ==
    \E c \in Chats : Step(ClearState(Begin, c))

NextSess ==
    \/ SessTick
    \/ SessSet
    \/ SessClear
    \/ Expire

SpecSess == Init /\ [][NextSess]_vars

\* node runs a timer whose delay has passed, and the clock advances
LiveSpecSess ==
    /\ SpecSess
    /\ WF_vars(SessTick)
    /\ \A c \in Chats : WF_vars(ExpireOf(c))

----------------------------------------------------------------------------
(* The report wizards: create_report and edit_report of one owner, the     *)
(* inline buttons, the idle timeout and the restart of the process         *)

RepTexts == {"a", "-"}
CustomTimes == {0}
ParseCustomResults == {Unparsed} \cup {At(x) : x \in CustomTimes}
\* the buttons that are pressed: of the last time prompt of either wizard or
\* with an unknown field; a time preset, custom or an unknown tag
Fields == {"done_time", "edit_done_time", "other"}
Tags == {"now", "custom", "other"}

\* every suspended handler holds the object that is the owner's session.  The
\* send of a preview settles before the event after the one that took the
\* handler's object out of the Map is handled
Attached == \A s \in susp : s.obj.oid = userState[s.chat].oid

RepTick == Attached /\ Tick

\* the keyboard button that starts the report wizard
MenuReport ==
    /\ Attached
    /\ \E text \in Texts :
           Step(OnMessage(Begin, SchedChat, MenuReportBtn(text), TRUE))

\* a text that is no button label and no command; the sentinel is typed in
\* the wizard that knows it
RepMsg ==
    /\ Attached
    /\ \E text \in RepTexts, cu \in ParseCustomResults :
           /\ text = "-" => userState[SchedChat].mode = "edit_report"
           /\ Step(OnMessage(Begin, SchedChat, Typed(text, Unparsed, cu), TRUE))

PreviewSent ==
    \E s \in susp : Step(OnPreviewSent(Begin, s))

PreviewFailed ==
    \E s \in susp : Step(OnPreviewFailed(Begin, s))

\* a button of a keyboard of presets, of this prompt or of an earlier one
Preset ==
    /\ Attached
    /\ \E field \in Fields, tag \in Tags, sent \in BOOLEAN :
           Step(OnPromptSettled(OnPreset(Begin, SchedChat, field, tag), sent))

Save == Attached /\ Step(OnConfirmSave(Begin, SchedChat))

Cancel == Attached /\ Step(OnConfirmCancel(Begin, SchedChat))

\* /edit_report id
CmdEditReport ==
    /\ Attached
    /\ \E id \in ReportIds, text \in Texts :
           Step(OnEditReport(OnMessage(Begin, SchedChat, Command(text), TRUE),
                             SchedChat, id))

RepMenuCreate == Attached /\ MenuCreate

\* "ingatkan ..." with a text and no time in it
RepIngat ==
    /\ Attached
    /\ \E text \in Texts :
           Step(OnMessage(Begin, SchedChat, Ingat(text, text, Unparsed), TRUE))

RepCmdEditTime == Attached /\ CmdEditTime

RepMenuHome == Attached /\ MenuHome

RepExpire == Attached /\ Expire

RepRestart == Attached /\ Restart

NextRep ==
    \/ RepTick
    \/ MenuReport
    \/ RepMsg
    \/ PreviewSent
    \/ PreviewFailed
    \/ Preset
    \/ Save
    \/ Cancel
    \/ CmdEditReport
    \/ RepMenuCreate
    \/ RepIngat
    \/ RepCmdEditTime
    \/ RepMenuHome
    \/ RepExpire
    \/ RepRestart

SpecRep == Init /\ [][NextRep]_vars

----------------------------------------------------------------------------
(* The presets on their own: a create_report wizard in which only buttons  *)
(* are pressed, every field and every tag, while the clock passes midnight *)

PresetAny ==
    \E field \in AllFields, tag \in AllTags \ {"custom"} :
        Step(OnPreset(Begin, SchedChat, field, tag))

NextPreset ==
    \/ RepTick
    \/ MenuReport
    \/ PresetAny
    \/ RepExpire

SpecPreset == Init /\ [][NextPreset]_vars

----------------------------------------------------------------------------
(* The resolver on its own: parseIndoPrefer applied to a phrase that names  *)
(* an hour, at any reference time                                           *)

InitParse ==
    \E t \in 0 .. MaxParseNow : Is([Boot(Genesis, 0, TRUE) EXCEPT !.now = t])

Resolve ==
    \E hh \in 0 .. MaxHour, today \in BOOLEAN :
        Becomes([Cur EXCEPT !.resolved =
                    [at |-> now, hh |-> hh, today |-> today,
                     res |-> ParseManual(now, hh, today)]])

NextParse == Resolve

SpecParse == InitParse /\ [][NextParse]_vars

----------------------------------------------------------------------------
(* Properties of the scheduler *)

Pending(j) == j.st = "pending"
Running(j) == j.st = "sending"
Stored(i) == notes[i].id = i

\* C1: every reminder id has at most one armed job (armed, not yet fired,
\* not cancelled), after any arms, cancels and fires
C1_OnePendingJobPerId ==
    \A j1 \in jobs, j2 \in jobs :
        (Pending(j1) /\ Pending(j2) /\ j1.id = j2.id) => j1 = j2

\* C2: a time that was armed for a reminder is delivered once: no two fire
\* callbacks run for the same reminder and the same scheduled_at (stated
\* for jobs that were armed before their time came)
C2_OneFirePerArmedTime ==
    \A j1 \in jobs, j2 \in jobs :
        (Running(j1) /\ Running(j2) /\ j1.ahead /\ j2.ahead
           /\ j1.id = j2.id /\ j1.when = j2.when) => j1 = j2

\* C3: an armed job belongs to a stored reminder that is not fired, and it
\* fires at the scheduled_at the store holds for that reminder (so none is
\* left for a deleted reminder, and after edit_note_time the only armed job
\* is the one for the new time)
C3_PendingJobMatchesStore ==
    \A j \in jobs :
        Pending(j) =>
            /\ Stored(j.id)
            /\ notes[j.id].reminder_at = j.when
            /\ notes[j.id].reminded = 0

\* C4: whenever the fired flag of a reminder is set, its scheduled_at is
\* not null and not in the future
C4_FiredOnlyWhenDue ==
    [][\A i \in NoteIds :
          (notes[i].reminded = 0 /\ notes'[i].reminded = 1) =>
              (notes'[i].reminder_at # NoTime /\ notes'[i].reminder_at <= now')]_vars

\* the row that the latest step gave to scheduleNoteJob, if any
Armed == {trace.arm[k] : k \in 1 .. Len(trace.arm)}
ArmedNext == {trace'.arm[k] : k \in 1 .. Len(trace'.arm)}

JobsOf(i) == {j \in jobs : j.id = i}

\* C5, as amended: a call of scheduleNoteJob for a reminder whose
\* scheduled_at is strictly before the current time is a no-op: the set of
\* timers and the registry are as before the call, so the call starts nothing
\* that could fire
C5_ArmOfPastIsNoOp ==
    [][\A a \in ArmedNext :
          a.when < now' => (jobs' = jobs /\ scheduledJobs' = scheduledJobs)]_vars

\* C5, as stated: a call of scheduleNoteJob for a reminder whose scheduled_at
\* is not strictly after the current time creates no timer and leaves the
\* registry unchanged
C5_ArmOfNonFutureIsNoOp ==
    [][\A a \in ArmedNext :
          a.when <= now' => (jobs' = jobs /\ scheduledJobs' = scheduledJobs)]_vars

\* a handler called scheduleNoteJob with a time that is past, for a reminder
\* that has a timer armed
C5_Witness ==
    \E a \in Armed :
        /\ a.when < now
        /\ \E j \in JobsOf(a.id) : Pending(j) /\ scheduledJobs[a.id] = j.h

Eligible(i) ==
    Stored(i) /\ notes[i].reminder_at # NoTime /\ notes[i].reminded = 0

\* C6, as amended: right after startup recovery, every stored reminder with
\* a scheduled_at strictly in the future and the fired flag false has exactly
\* one armed timer, for that time, and the registry holds it; a reminder that
\* is fired, has no scheduled_at or has one strictly before the start has no
\* timer and no registry entry; and no step ever creates a timer for a time
\* that has elapsed, so such a reminder does not fire later
C6_RecoveryArmsFuture ==
    /\ [](trace.last = "boot" =>
            \A i \in NoteIds :
                /\ (Eligible(i) /\ notes[i].reminder_at > now) =>
                       \E j \in jobs :
                           /\ JobsOf(i) = {j}
                           /\ Pending(j)
                           /\ j.when = notes[i].reminder_at
                           /\ scheduledJobs[i] = j.h
                /\ (~Eligible(i) \/ notes[i].reminder_at < now) =>
                       (JobsOf(i) = {} /\ scheduledJobs[i] = Absent))
    /\ [][\A j \in jobs' : (j \notin jobs /\ Pending(j)) => j.when >= now']_vars

\* C6, as stated: right after startup recovery a reminder has an armed timer
\* exactly when it is stored with a scheduled_at in the future and the fired
\* flag false
C6_RecoveryArmsExactlyFuture ==
    trace.last = "boot" =>
        \A i \in NoteIds :
            (\E j \in JobsOf(i) : Pending(j))
                <=> (Eligible(i) /\ notes[i].reminder_at > now)

\* the process has just started on a store with a reminder that is due later
C6_Witness ==
    /\ trace.last = "boot"
    /\ now > 0
    /\ \E i \in NoteIds :
           /\ Eligible(i)
           /\ notes[i].reminder_at > now
           /\ \E j \in JobsOf(i) : Pending(j)

\* C7: when the delivery of a timer that was armed ahead of its time fails,
\* the fired flag stays as it is, the registry entry of the id is removed,
\* and no other delivery attempt exists for that reminder and that time
C7_NoAttemptAfterFailure ==
    [][\A j \in jobs :
          (trace'.last = "fail" /\ j \notin jobs' /\ j.ahead) =>
              /\ notes' = notes
              /\ scheduledJobs'[j.id] = Absent
              /\ ~ \E j2 \in jobs' :
                     j2.id = j.id /\ j2.when = j.when /\ j2.ahead]_vars

----------------------------------------------------------------------------
(* Properties of the session manager *)

TimersOf(c) == {t \in timers : t.chat = c}

\* C8: every owner has at most one session and at most one idle timeout
\* that is armed, and the timeout map names that timer; an owner without a
\* session has no timer
C8_OneSessionOneTimer ==
    \A c \in Chats :
        /\ Cardinality(TimersOf(c)) <= 1
        /\ (userState[c] = NoState) <=> (TimersOf(c) = {})
        /\ \A t \in TimersOf(c) : stateTimeouts[c] = t.h

\* both owners have a session and its timer
C8_Witness ==
    \A c \in Chats : userState[c] # NoState /\ Cardinality(TimersOf(c)) = 1

\* C9: setState for an owner that has a session restarts the deadline: the
\* timer that is armed is the one of the latest setState and is due TIMEOUT
\* after it, and a timeout deletes a session only TIMEOUT or more after
\* the latest setState of its owner
C9_SetRestartsDeadline ==
    /\ [](\A t \in timers : t.cur /\ t.due = lastSet[t.chat] + TIMEOUT)
    /\ [][trace'.last = "expire" =>
             \A t \in timers :
                 (t \notin timers' /\ userState[t.chat] # NoState) =>
                     (t.cur /\ now' >= lastSet[t.chat] + TIMEOUT)]_vars

\* a session was replaced by setState later than it was written
C9_Witness ==
    /\ trace.last = "reset"
    /\ \E c \in Chats :
           /\ lastSet[c] = now
           /\ now > 0
           /\ \E t \in TimersOf(c) : t.due = now + TIMEOUT

\* C10: a session that no setState and no clearState touches is deleted by
\* its timeout; the timeout step deletes the session of a live session's
\* owner together with the entry of its timer and leaves no timer for that
\* owner, so the notification is sent once; after clearState no timer is
\* left that could notify
C10_IdleExpiry ==
    /\ [](\A c \in Chats : userState[c] = NoState => TimersOf(c) = {})
    /\ [][trace'.last = "expire" =>
             \E t \in timers :
                 /\ t \notin timers'
                 /\ userState[t.chat] # NoState
                 /\ userState'[t.chat] = NoState
                 /\ stateTimeouts'[t.chat] = NoTimer
                 /\ \A u \in timers' : u.chat # t.chat]_vars
    /\ \A c \in Chats : (userState[c] # NoState) ~> (userState[c] = NoState)

\* a timeout has just deleted a session
C10_Witness ==
    /\ trace.last = "expire"
    /\ \E c \in Chats : userState[c] = NoState /\ now >= TIMEOUT

----------------------------------------------------------------------------
(* Properties of the resolver and of the reminder wizards *)

\* the candidate of the latest call of the resolver: today at the hour named
Candidate == DayOf(resolved.at) * DayLen + resolved.hh

\* C11: for a phrase that names an hour, with candidate = today at that
\* hour: a candidate strictly after now is returned; otherwise a phrase with
\* a today marker gives time_passed_today with the candidate, and one without
\* gives the candidate plus one day.  So without a today marker, and for an
\* hour that is a time of day, the result is the earliest instant with that
\* time of day strictly after now
C11_ResolveExplicitHour ==
    resolved.at # NoTime =>
        /\ Candidate > resolved.at => resolved.res = At(Candidate)
        /\ (Candidate <= resolved.at /\ resolved.today) =>
               resolved.res = Passed(Candidate)
        /\ (Candidate <= resolved.at /\ ~ resolved.today) =>
               resolved.res = At(Candidate + DayLen)
        /\ (~ resolved.today /\ resolved.hh < DayLen) =>
               /\ resolved.res.k = "at"
               /\ resolved.res.t > resolved.at
               /\ TimeOfDay(resolved.res.t) = resolved.hh
               /\ \A x \in (resolved.at + 1) .. (resolved.res.t - 1) :
                      TimeOfDay(x) # resolved.hh

\* the resolver was given an hour of today that has passed, without a today
\* marker, and returned that hour of the next day
C11_Witness ==
    /\ resolved.at # NoTime
    /\ ~ resolved.today
    /\ resolved.hh < DayLen
    /\ Candidate < resolved.at
    /\ resolved.res = At(Candidate + DayLen)

\* C12: an affirmative reply in confirm_next_for_reminder, given while the
\* session lives, stores the reminder at the candidate plus one day, the
\* candidate being the day the session was written at the HH:mm it carries
C12_ConfirmIsCandidatePlusDay ==
    [][(/\ userState[SchedChat].mode = "confirm_next_for_reminder"
        /\ now < lastSet[SchedChat] + TIMEOUT
        /\ nextId' = nextId + 1) =>
           notes'[nextId].reminder_at =
               DayOf(lastSet[SchedChat]) * DayLen
                 + userState[SchedChat].candidate + DayLen]_vars

\* C19: a command whose id is not found under the owner changes no row, no
\* session and no timer
C19_NotFoundMutatesNothing ==
    [][trace'.last = "notfound" =>
           /\ notes' = notes
           /\ reports' = reports
           /\ userState' = userState
           /\ stateTimeouts' = stateTimeouts
           /\ timers' = timers
           /\ jobs' = jobs
           /\ scheduledJobs' = scheduledJobs]_vars

\* C20: in edit_note_time an input that resolves to time_passed_today moves
\* the session to the confirmation mode, which carries the reminder's id and
\* the candidate's HH:mm
C20_EditTimeAsksToConfirm ==
    [][(trace'.last = "passed_today"
          /\ userState[SchedChat].mode = "edit_note_time") =>
           /\ userState'[SchedChat].mode = "confirm_next_for_reminder"
           /\ userState'[SchedChat].id = userState[SchedChat].id
           /\ userState'[SchedChat].candidate \in 0 .. (DayLen - 1)]_vars

\* C21: in await_time_for_note the input is resolved as in step 2 of
\* create_reminder: a timestamp is written to the reminder of the session and
\* the session ends, time_passed_today moves the session to the confirmation
\* mode with the candidate's HH:mm, and an unrecognized time keeps the session
C21_AwaitTimeResolvesAsStep2 ==
    \A text \in Texts, p \in ParseResults(now), accept \in BOOLEAN :
        LET st == userState[SchedChat]
            M == OnMessage(Begin, SchedChat, Plain(text, p), accept)
        IN st.mode = "await_time_for_note" =>
             /\ p.k = "at" =>
                   /\ HasNote(Cur, st.id, SchedChat) =>
                          M.notes[st.id].reminder_at = p.t
                   /\ M.userState[SchedChat] = NoState
             /\ p.k = "passed" =>
                   /\ M.userState[SchedChat].mode = "confirm_next_for_reminder"
                   /\ M.userState[SchedChat].candidate = FormatHHmm(p.t)
             /\ p.k = "none" =>
                   /\ M.userState = userState
                   /\ M.timers = timers

\* C22: when an owner who has a session sends the button that returns to
\* the main menu, the session and its timer are deleted and the store is as
\* it was; when the owner sends the button that starts a wizard, the session
\* becomes the first step of that wizard
C22_MenuButtonsEndTheSession ==
    \A text \in Texts :
        LET home == OnMessage(Begin, SchedChat, MenuHomeBtn(text), TRUE)
            create == OnMessage(Begin, SchedChat, MenuCreateBtn(text), TRUE)
            report == OnMessage(Begin, SchedChat, MenuReportBtn(text), TRUE)
        IN userState[SchedChat] # NoState =>
             /\ home.userState[SchedChat] = NoState
             /\ home.stateTimeouts[SchedChat] = NoTimer
             /\ \A t \in home.timers : t.chat # SchedChat
             /\ home.notes = notes
             /\ home.reports = reports
             /\ create.userState[SchedChat] =
                    St("create_reminder", 1, NoId, NULL, NoTime)
             /\ report.userState[SchedChat].mode = "create_report"
             /\ report.userState[SchedChat].step = 1
             /\ report.userState[SchedChat].data = NoData

\* C24: when step 2 of create_reminder, or the confirmation, stores a
\* reminder, exactly one row is new, it holds the text of the session and a
\* time, a job is pending for it at that time, and the session is deleted
C24_WizardSuccessArms ==
    [][(/\ userState[SchedChat].mode
              \in {"create_reminder", "confirm_next_for_reminder"}
        /\ nextId' = nextId + 1)
       => /\ notes'[nextId].reminder_at # NoTime
          /\ notes' = [notes EXCEPT
                         ![nextId] = NoteRow(nextId, SchedChat,
                                             userState[SchedChat].text,
                                             notes'[nextId].reminder_at)]
          /\ \E j \in jobs' : /\ j.id = nextId
                              /\ j.st = "pending"
                              /\ j.when = notes'[nextId].reminder_at
          /\ userState'[SchedChat] = NoState]_vars

----------------------------------------------------------------------------
(* Properties of the report wizards and of the inline buttons *)

Owner == userState[SchedChat]

\* the session of every owner with its deadline, and the store, are in M
\* what they are in N
SameSessionAndStore(M, N) ==
    /\ M.userState = N.userState
    /\ M.stateTimeouts = N.stateTimeouts
    /\ M.timers = N.timers
    /\ M.lastSet = N.lastSet
    /\ M.notes = N.notes
    /\ M.nextId = N.nextId
    /\ M.reports = N.reports
    /\ M.nextRep = N.nextRep

\* C13: a cancel signal at step 7 of create_report deletes the session and
\* creates no report row; a save signal at step 7 creates exactly one row
\* that holds the six values of the session and deletes the session; a save
\* signal that finds no session creates no row
C13_SaveAndCancelAtPreview ==
    [][/\ (Owner.mode = "create_report" /\ Owner.step = 7
             /\ trace'.last = "cancel")
          => (userState'[SchedChat] = NoState /\ reports' = reports)
       /\ (Owner.mode = "create_report" /\ Owner.step = 7
             /\ trace'.last \in {"save", "save_failed"})
          => /\ userState'[SchedChat] = NoState
             /\ nextRep' = nextRep + 1
             /\ reports' = [reports EXCEPT
                              ![nextRep] = ReportRow(nextRep, SchedChat, Owner.data)]
       /\ (Owner = NoState
             /\ trace'.last \in {"save", "save_failed", "save_rejected"})
          => reports' = reports]_vars

\* C14: a create_report session moves from step k only to step k + 1, for
\* every interleaving of texts and preset buttons
C14_StepsInOrder ==
    [][(/\ Owner.mode = "create_report"
        /\ userState'[SchedChat].mode = "create_report"
        /\ userState'[SchedChat].oid = Owner.oid
        /\ userState'[SchedChat].step # Owner.step)
       => userState'[SchedChat].step = Owner.step + 1]_vars

\* C15: a preset button, custom included, pressed by an owner who has no
\* session or a session of a mode that is no report wizard changes neither
\* the session, nor its deadline, nor the store
C15_PresetNeedsReportWizard ==
    [][(/\ trace'.last \in {"no_session", "custom", "preset_invalid", "preset",
                             "preset_ignored"}
        /\ Owner.mode \notin {"create_report", "edit_report"})
       => SameSessionAndStore([Cur EXCEPT !.userState = userState',
                                          !.stateTimeouts = stateTimeouts',
                                          !.timers = timers',
                                          !.lastSet = lastSet',
                                          !.notes = notes',
                                          !.nextId = nextId',
                                          !.reports = reports',
                                          !.nextRep = nextRep'], Cur)]_vars

\* C16: the timestamp typed right after custom was pressed for field F of the
\* wizard is stored in the attribute that F selects and the wizard goes on
\* with the step after F, whatever the step of the session
C16_CustomSelectsField ==
    [][(/\ trace.last = "custom"
        /\ trace'.last = "typed"
        /\ \/ Owner.mode = "create_report" /\ Owner.awaiting_custom \in CreateFields
           \/ Owner.mode = "edit_report" /\ Owner.awaiting_custom \in EditFields)
       => LET attr == PresetAttr(Owner.awaiting_custom)
              st == userState'[SchedChat]
          IN /\ st.data[attr] # NoTime
             /\ st.data = [Owner.data EXCEPT ![attr] = st.data[attr]]
             /\ st.step = PresetStep(Owner.awaiting_custom)]_vars


\* the field belongs to the wizard of the session
FieldOfMode(field, mode) ==
    \/ mode = "create_report" /\ field \in CreateFields
    \/ mode = "edit_report" /\ field \in EditFields

\* C17: whatever the session, a preset button with an unknown tag, or with a
\* time preset and a field that does not belong to the wizard of the
\* session, leaves the session, its deadline and the store as they are
C17_UnknownPresetMutatesNothing ==
    \A c \in Chats, field \in AllFields, tag \in AllTags :
        (\/ tag \notin KnownTags
         \/ tag # "custom" /\ ~FieldOfMode(field, userState[c].mode))
        => SameSessionAndStore(OnPreset(Cur, c, field, tag), Cur)

\* an edit_report button was pressed in create_report after the deadline had
\* run for a while, and was answered without effect
C17_Witness ==
    /\ trace.last = "preset_ignored"
    /\ Owner.mode = "create_report"
    /\ Owner.step = 5
    /\ now > lastSet[SchedChat]

\* the session of c waits for a time
TimeStep(c) ==
    LET st == userState[c]
    IN \/ st.mode = "create_reminder" /\ st.step = 2
       \/ st.mode \in {"edit_note_time", "await_time_for_note"}
       \/ st.mode \in {"create_report", "edit_report"} /\ st.step \in 3 .. 5

\* C18: at every step that waits for a time, a text that no parser resolves
\* leaves the session, its deadline and the store as they are, and arms or
\* cancels no job
C18_RepromptMutatesNothing ==
    \A c \in Chats, text \in Texts, accept \in BOOLEAN :
        TimeStep(c)
        => LET M == OnMessage(Cur, c, Typed(text, Unparsed, Unparsed), accept)
           IN /\ SameSessionAndStore(M, Cur)
              /\ M.jobs = jobs
              /\ M.scheduledJobs = scheduledJobs
              /\ M.trace.last = "reprompt"

\* a time step of create_report re-prompted after the deadline had run for a
\* while
C18_Witness ==
    /\ trace.last = "reprompt"
    /\ Owner.mode = "create_report"
    /\ Owner.step = 4
    /\ now > lastSet[SchedChat]

\* C23: the handler of a button answers the button on every path, also when
\* nothing changes and when the send of the next prompt or the insert of the
\* report fails
C23_EveryButtonIsAnswered ==
    [][trace'.last \in ButtonPaths => Acknowledged(trace'.last)]_vars

\* C25: a time preset pressed at time now in create_report stores, in the
\* attribute of its field: now for now, 08:00 of the day of now for today_08,
\* 13:00 of that day for today_13 and 08:00 of the next day for tomorrow_08,
\* whenever the wizard was started
C25_PresetResolvesAtPress ==
    \A field \in CreateFields, tag \in KnownTags \ {"custom"} :
        Owner.mode = "create_report" =>
            LET v == OnPreset(Cur, SchedChat, field, tag)
                        .userState[SchedChat].data[PresetAttr(field)]
            IN /\ tag = "now" => v = now
               /\ tag = "today_08" =>
                      DayOf(v) = DayOf(now) /\ TimeOfDay(v) = Hour08
               /\ tag = "today_13" =>
                      DayOf(v) = DayOf(now) /\ TimeOfDay(v) = Hour13
               /\ tag = "tomorrow_08" =>
                      DayOf(v) = DayOf(now) + 1 /\ TimeOfDay(v) = Hour08

\* a wizard that took a preset on the first day (13:00 of that day as the
\* time of the report) has just taken 13:00 of the second day as done_time
C25_Witness ==
    /\ trace.last = "preset"
    /\ Owner.mode = "create_report"
    /\ DayOf(now) = 1
    /\ Owner.data.report_time = Hour13
    /\ Owner.data.done_time = DayLen + Hour13
    /\ Owner.step = 6

\* C26: when the handler of step 6 resumes after other handlers of the owner
\* ran, the session is what this handler writes, the object it holds at
\* step 7, whatever the others wrote or deleted, and the owner has one idle
\* timeout, the one of this write
C26_LastWriteWins ==
    [][trace'.last \in {"preview", "preview_late"} =>
          \E s \in susp :
              /\ s \notin susp'
              /\ userState'[s.chat] = [s.obj EXCEPT !.step = 7]
              /\ \E t \in timers' :
                     /\ {u \in timers' : u.chat = s.chat} = {t}
                     /\ stateTimeouts'[s.chat] = t.h
                     /\ t.due = now + TIMEOUT]_vars

\* the handler of step 6 resumed after the session it had read was taken out
\* of the Map, and its write is the session
C26_Witness ==
    /\ trace.last = "preview_late"
    /\ Owner.mode = "create_report"
    /\ Owner.step = 7
    /\ Cardinality(TimersOf(SchedChat)) = 1

\* C27: an owner whose session was deleted, by clearState or by the idle
\* timeout, has no session after a suspended handler of step 6 resumes
C27_NoSessionAfterDelete ==
    [][(Owner = NoState /\ trace'.last \in {"preview", "preview_late"})
          => userState'[SchedChat] = NoState]_vars

\* C28: a save or a cancel signal that does not find the session at step 7
\* of create_report leaves the session, its deadline and the store as they
\* are
C28_SaveAndCancelNeedPreview ==
    \A c \in Chats :
        ~(userState[c].mode = "create_report" /\ userState[c].step = 7)
        => /\ SameSessionAndStore(OnConfirmSave(Cur, c), Cur)
           /\ SameSessionAndStore(OnConfirmCancel(Cur, c), Cur)

\* C29: a request "ingatkan ..." whose time has passed today has one row:
\* after the affirmative reply, or after a new time, no further row was
\* inserted and the row of the request has a time
C29_OneRowPerRequest ==
    LET st == userState[SchedChat]
        OneRow(M) == /\ M.nextId = nextId
                     /\ HasNote(M, st.id, SchedChat)
                     /\ M.notes[st.id].reminder_at # NoTime
    IN (/\ st.mode = "confirm_next_for_reminder"
        /\ st.id # NoId
        /\ HasNote(Cur, st.id, SchedChat))
       => \A text \in Texts, accept \in BOOLEAN :
            /\ OneRow(OnMessage(Begin, SchedChat, Yes(text), accept))
            /\ \A p \in ParseResults(now), x \in TimeVals :
                 OneRow(OnMessage(OnMessage(Begin, SchedChat, Plain(text, p), accept),
                                  SchedChat, Plain(text, At(x)), accept))

\* C30: a job that fires sends the text the store holds for its reminder
\* and was armed for the time the store holds, also when the reminder was
\* edited after the job was armed: for every job that can fire now, and for
\* every pending job when it fires after the text of its reminder was edited
C30_FireCarriesStoredNote ==
    LET st == userState[SchedChat]
        Carries(M, j) ==
            \A k \in OnFire(M, j).jobs :
                (k.h = j.h /\ k.st = "sending" /\ HasNote(M, k.id, k.chat))
                => /\ k.text = M.notes[k.id].text
                   /\ k.when = M.notes[k.id].reminder_at
        Due(M, j) == [M EXCEPT !.now = IF @ < j.when THEN j.when ELSE @]
    IN \A j \in jobs :
         j.st = "pending"
         => /\ now >= j.when => Carries(Begin, j)
            /\ (st.mode = "edit_note_text" /\ st.id = j.id)
                 => Carries(Due(OnMessage(Begin, SchedChat, Plain("b", Unparsed), TRUE),
                                j), j)

====
